---- MODULE Spec2Model ----
(***************************************************************************)
(* Model of the rootfs storage provider (filesystem creation on a          *)
(* directory tree) and of the MAAS constraint / interface-binding          *)
(* encoders.                                                               *)
(*                                                                         *)
(* Modelling assumptions (stated once, used throughout):                   *)
(*  - the directory tree has no permission bits: a directory operation     *)
(*    fails only for the structural reasons POSIX gives (ENOENT, ENOTDIR,  *)
(*    EEXIST, ENOTEMPTY), as for an agent running with full rights;        *)
(*  - every non-directory (regular file, symlink, device) is a "file";     *)
(*  - strings the code parses are sequences of one-character strings.      *)
(***************************************************************************)
EXTENDS Integers, Sequences, FiniteSets, TLC

(* ------------------------------ bounds -------------------------------- *)
MaxBatch == 2
MaxSize == 2
MaxAttempts == 2
MaxBindings == 2
MaxValues == 3
MaxCount == 1

Callers == {1, 2}
SeqCallers == {1}
\* the i-th request of a batch is for the i-th filesystem tag
TagNames == <<"filesystem-0", "filesystem-1", "filesystem-2", "filesystem-3">>
Tags == {TagNames[i] : i \in 1..MaxBatch}
Machines == {"machine-0"}
\* the directory tree below the root: /a, /a/b, /a/d
PathSet == {<<"a">>, <<"a", "b">>, <<"a", "d">>}
NoPath == <<>>
Sizes == 1..MaxSize

(* --------------------------- strings ---------------------------------- *)
NL == "\n"
Digit == [c \in {"0", "1", "2", "3", "4", "5", "6", "7", "8", "9"} |->
            CASE c = "0" -> 0 [] c = "1" -> 1 [] c = "2" -> 2 [] c = "3" -> 3
              [] c = "4" -> 4 [] c = "5" -> 5 [] c = "6" -> 6 [] c = "7" -> 7
              [] c = "8" -> 8 [] c = "9" -> 9]
DigitChar == <<"0", "1", "2", "3", "4", "5", "6", "7", "8", "9">>
WhiteSpace == {" ", NL, "\t"}

\* strings.SplitN(s, "\n", 2): one element when s holds no newline, else the
\* text before the first newline and everything after it.
SplitN2(s) ==
  IF \A i \in 1..Len(s) : s[i] # NL
    THEN <<s>>
    ELSE LET k == CHOOSE i \in 1..Len(s) :
                     s[i] = NL /\ \A j \in 1..(i - 1) : s[j] # NL
         IN <<SubSeq(s, 1, k - 1), SubSeq(s, k + 1, Len(s))>>

\* strings.TrimSpace
TrimSpace(s) ==
  IF \A i \in 1..Len(s) : s[i] \in WhiteSpace
    THEN <<>>
    ELSE LET lo == CHOOSE i \in 1..Len(s) :
                     s[i] \notin WhiteSpace /\ \A j \in 1..(i - 1) : s[j] \in WhiteSpace
             hi == CHOOSE i \in 1..Len(s) :
                     s[i] \notin WhiteSpace /\ \A j \in (i + 1)..Len(s) : s[j] \in WhiteSpace
         IN SubSeq(s, lo, hi)

RECURSIVE DigitsValue(_)
DigitsValue(s) ==
  IF s = <<>> THEN 0
  ELSE 10 * DigitsValue(SubSeq(s, 1, Len(s) - 1)) + Digit[s[Len(s)]]

\* strconv.ParseUint(s, 10, 64): an error for the empty string and for any
\* character that is no decimal digit (a sign included).  The outputs of the
\* model have at most five digits, so the 64-bit range error cannot arise.
ParseUint(s) ==
  IF s = <<>> \/ \E i \in 1..Len(s) : s[i] \notin DOMAIN Digit
    THEN [ok |-> FALSE, val |-> 0]
    ELSE [ok |-> TRUE, val |-> DigitsValue(s)]

\* decimal rendering of a block count, as df prints it
RECURSIVE Itoa(_)
Itoa(n) == IF n < 10 THEN <<DigitChar[n + 1]>>
           ELSE Itoa(n \div 10) \o <<DigitChar[(n % 10) + 1]>>

(* ------------------- the size command's answers ----------------------- *)
Header == <<"S", "i", "z", "e">>
BlockCounts == {k * 1024 - 1 : k \in 1..MaxSize} \cup {MaxSize * 1024}
WellFormedOutputs == {Header \o <<NL, " ">> \o Itoa(b) \o <<NL>> : b \in BlockCounts}
MalformedOutputs ==
  { Header,                                            \* no second line
    Header \o <<NL>>,                                  \* empty second line
    Header \o <<NL, "1", "K", NL>>,                    \* not a number
    Header \o <<NL, "1", "0", "2", "4", NL, "7", NL>> } \* trailing line
DfOutputs == WellFormedOutputs \cup MalformedOutputs
DfResults == {[failed |-> TRUE, out |-> <<>>]}
               \cup {[failed |-> FALSE, out |-> o] : o \in DfOutputs}
NoDf == [failed |-> FALSE, out |-> <<"-">>]

(* ------------------------- values of the API -------------------------- *)
NoAttachment == [Machine |-> "", Path |-> NoPath, present |-> FALSE]
Attachments == {NoAttachment}
                 \cup {[Machine |-> m, Path |-> p, present |-> TRUE] :
                          m \in Machines, p \in PathSet \cup {NoPath}}
FilesystemParams == [Tag : Tags, Size : Sizes, Attachment : Attachments]

ZeroFilesystem == [Tag |-> "", Size |-> 0]
ZeroAttachment == [Filesystem |-> "", Machine |-> "", Path |-> NoPath]

NotSupported == "creating filesystem without machine attachment not supported"
NoPathGiven == "cannot create a filesystem mount without specifying a path"
NotADirectory == "path must be a directory"
PathNotEmpty == "path must be empty"
NotBigEnough == "filesystem is not big enough"

Nil == [kind |-> "nil", measured |-> 0, requested |-> 0, annot |-> <<>>]
Err(k) == [kind |-> k, measured |-> 0, requested |-> 0, annot |-> <<>>]
ErrNotBigEnough(m, r) ==
  [kind |-> NotBigEnough, measured |-> m, requested |-> r,
   annot |-> <<>>]
Annotate(e, msg) == [e EXCEPT !.annot = <<msg>> \o @]

NilSlice == [isNil |-> TRUE, elems |-> <<>>]
EmptySlice == [isNil |-> FALSE, elems |-> <<>>]
\* (putting x in front instead: not what append does)
Prepend1(s, x) == [isNil |-> FALSE, elems |-> <<x>> \o s.elems]
\* append(s, x)
Append1(s, x) == [isNil |-> FALSE, elems |-> Append(s.elems, x)]

(* ------------------------ the directory tree -------------------------- *)
Parent(p) == SubSeq(p, 1, Len(p) - 1)
Ancestors(p) == {SubSeq(p, 1, k) : k \in 1..(Len(p) - 1)}
Children(p) == {q \in PathSet : Len(q) = Len(p) + 1 /\ Parent(q) = p}
Kind(f, p) == IF p = <<>> THEN "dir" ELSE f[p]
WellFormed(f) == \A p \in PathSet : f[p] # "none" => Kind(f, Parent(p)) = "dir"
Trees == {f \in [PathSet -> {"none", "file", "dir"}] : WellFormed(f)}

\* os.Lstat: what the caller sees of (fi, err)
Lstat(f, p) ==
  IF \E q \in Ancestors(p) : f[q] = "file" THEN "ENOTDIR"
  ELSE IF f[p] = "none" THEN "ENOENT"
  ELSE f[p]

FileCountWithDots(f, p) ==
  IF (IF \E q \in Ancestors(p) : f[q] = "file" THEN "ENOTDIR"
      ELSE IF f[p] = "none" THEN "ENOENT" ELSE f[p]) = "dir"
    THEN Cardinality({q \in PathSet : Len(q) = Len(p) + 1
                                       /\ SubSeq(q, 1, Len(q) - 1) = p
                                       /\ f[q] # "none"}) + 2
    ELSE -1

FileCountBlind(f, p) ==
  IF (IF \E q \in Ancestors(p) : f[q] = "file" THEN "ENOTDIR"
      ELSE IF f[p] = "none" THEN "ENOENT" ELSE f[p]) = "dir"
    THEN 0
    ELSE -1

\* ioutil.ReadDir + len: -1 stands for the error return
FileCount(f, p) ==
  IF Lstat(f, p) = "dir"
    THEN Cardinality({q \in Children(p) : f[q] # "none"})
    ELSE -1

RemoveNothing(f, p) == f

RemoveWithParents(f, p) ==
  IF f[p] = "file" \/ (f[p] = "dir" /\ \A q \in Children(p) : f[q] = "none")
    THEN [q \in PathSet |->
            IF q = p THEN "none"
            ELSE IF q \in Ancestors(p)
                      /\ \A r \in Children(q) \ {p} : f[r] = "none" /\ r \notin Ancestors(p)
              THEN "none"
            ELSE f[q]]
    ELSE f

\* os.Remove: removes a file or an empty directory, otherwise changes nothing
Remove(f, p) ==
  IF Lstat(f, p) = "file" \/ (Lstat(f, p) = "dir" /\ FileCount(f, p) = 0)
    THEN [f EXCEPT ![p] = "none"]
    ELSE f

\* os.MkdirAll, first half: the fast path on the path itself, then the
\* parents.  result "done" = nothing left to do, "leaf" = go on to Mkdir(path),
\* "fail" = error.
MkdirParents(f, p) ==
  IF Lstat(f, p) = "dir" THEN [result |-> "done", fs |-> f]
  ELSE IF Lstat(f, p) = "file" THEN [result |-> "fail", fs |-> f]
  ELSE IF \E q \in Ancestors(p) : f[q] = "file" THEN [result |-> "fail", fs |-> f]
  ELSE [result |-> "leaf",
        fs |-> [q \in PathSet |-> IF q \in Ancestors(p) THEN "dir" ELSE f[q]]]

\* os.MkdirAll, second half: Mkdir(path), and on error the Lstat re-check
MkdirLeaf(f, p) ==
  IF Kind(f, Parent(p)) # "dir" THEN [result |-> "fail", fs |-> f]
  ELSE IF f[p] = "none" THEN [result |-> "done", fs |-> [f EXCEPT ![p] = "dir"]]
  ELSE IF f[p] = "dir" THEN [result |-> "done", fs |-> f]
  ELSE [result |-> "fail", fs |-> f]

(* -------------------- MAAS: interface bindings ------------------------ *)
\* url.Values: parameter name -> the values added under it, in order
\* (the names the encoders use, and "cpu_power", the name a parameter for the
\* cpu-power constraint would go by)
Keys == {"arch", "cpu_count", "mem", "tags", "not_tags", "interfaces", "not_networks",
         "cpu_power"}
NoValues == [k \in Keys |-> <<>>]
\* url.Values.Add
Add(v, key, value) == [v EXCEPT ![key] = Append(@, value)]

\* strings.Join
RECURSIVE Join(_, _)
Join(elems, sep) ==
  IF elems = <<>> THEN <<>>
  ELSE IF Len(elems) = 1 THEN elems[1]
  ELSE elems[1] \o sep \o Join(Tail(elems), sep)

BindingNames == {<<>>, <<"0">>, <<"1">>}
SpaceIds == {<<>>, <<"s", "1">>, <<"s", "2">>}
\* interfaceBinding
InterfaceBindings == [Name : BindingNames, SpaceProviderId : SpaceIds, IsExcluded : BOOLEAN]
RECURSIVE ListsUpTo(_, _)
ListsUpTo(S, n) ==
  IF n = 0 THEN {<<>>}
  ELSE LET shorter == ListsUpTo(S, n - 1)
       IN shorter \cup {Append(l, x) : l \in {t \in shorter : Len(t) = n - 1}, x \in S}
BindingLists == ListsUpTo(InterfaceBindings, MaxBindings)

NoError == [kind |-> "", msg |-> "", name |-> <<>>]
\* errors.NewNotValid(nil, msg), msg naming the binding where the code does
NotValid(msg, name) == [kind |-> "NotValid", msg |-> msg, name |-> name]

\* fmt.Sprintf("%s:space=%s", binding.Name, binding.SpaceProviderId)
PositiveEntry(b) == b.Name \o <<":", "s", "p", "a", "c", "e", "=">> \o b.SpaceProviderId
\* fmt.Sprintf("space:%s", binding.SpaceProviderId)
NegativeEntry(b) == <<"s", "p", "a", "c", "e", ":">> \o b.SpaceProviderId

\* addInterfaces: the loop over the bindings from index i on
RECURSIVE AddInterfacesLoop(_, _, _, _, _)
AddInterfacesLoop(bs, i, namesSet, positives, negatives) ==
  IF i > Len(bs)
    THEN [err |-> NoError, positives |-> positives, negatives |-> negatives]
  ELSE IF bs[i].Name = <<>>
    THEN [err |-> NotValid("interface bindings cannot have empty names", <<>>),
          positives |-> positives, negatives |-> negatives]
  ELSE IF bs[i].SpaceProviderId = <<>>
    THEN [err |-> NotValid("invalid interface binding: space provider ID is required",
                           bs[i].Name),
          positives |-> positives, negatives |-> negatives]
  ELSE IF bs[i].Name \in namesSet
    THEN [err |-> NotValid("duplicated interface binding", bs[i].Name),
          positives |-> positives, negatives |-> negatives]
  ELSE IF bs[i].IsExcluded
    THEN AddInterfacesLoop(bs, i + 1, namesSet \cup {bs[i].Name}, positives,
                           Append(negatives, NegativeEntry(bs[i])))
  ELSE AddInterfacesLoop(bs, i + 1, namesSet \cup {bs[i].Name},
                         Append(positives, PositiveEntry(bs[i])), negatives)

\* what the two trailing params.Add calls make of the collected entries
AddCollected(v, positives, negatives) ==
  LET withPos == IF Len(positives) > 0
                   THEN Add(v, "interfaces", Join(positives, <<";">>))
                   ELSE v
  IN IF Len(negatives) > 0
       THEN Add(withPos, "not_networks", Join(negatives, <<",">>))
       ELSE withPos

addInterfacesKeepingPartial(v, bs) ==
  LET r == AddInterfacesLoop(bs, 1, {}, <<>>, <<>>)
  IN [err |-> r.err, params |-> AddCollected(v, r.positives, r.negatives)]

\* addInterfaces(params, bindings): the error returned and params afterwards
addInterfaces(v, bs) ==
  IF Len(bs) = 0 THEN [err |-> NoError, params |-> v]
  ELSE LET r == AddInterfacesLoop(bs, 1, {}, <<>>, <<>>)
       IN IF r.err # NoError
            THEN [err |-> r.err, params |-> v]
            ELSE [err |-> NoError, params |-> AddCollected(v, r.positives, r.negatives)]

(* ------------------ MAAS: constraints to parameters ------------------- *)
\* the raw values of a tags or spaces constraint
RawEntries == {<<>>, <<"^">>, <<"a">>, <<"b">>, <<"^", "a">>, <<"^", "^">>}
RawLists == ListsUpTo(RawEntries, MaxValues)

\* strings.HasPrefix(value, "^") and strings.TrimPrefix(value, "^")
HasPrefix(value) == Len(value) > 0 /\ value[1] = "^"
TrimPrefix(value) == IF HasPrefix(value) THEN Tail(value) ELSE value

\* parseDelimitedValues: the loop over rawValues from index i on
RECURSIVE ParseLoop(_, _, _, _)
ParseLoop(raw, i, pos, neg) ==
  IF i > Len(raw) THEN [positives |-> pos, negatives |-> neg]
  ELSE IF raw[i] = <<>> \/ raw[i] = <<"^">>
    THEN ParseLoop(raw, i + 1, pos, neg)
  ELSE IF HasPrefix(raw[i])
    THEN ParseLoop(raw, i + 1, pos, Append(neg, TrimPrefix(raw[i])))
  ELSE ParseLoop(raw, i + 1, Append(pos, raw[i]), neg)

\* variants of parseDelimitedValues that get it wrong
parseDelimitedValuesNoTrim(rawValues) ==
  [positives |-> SelectSeq(rawValues, LAMBDA x : x # <<>> /\ x # <<"^">> /\ ~HasPrefix(x)),
   negatives |-> SelectSeq(rawValues, LAMBDA x : x # <<>> /\ x # <<"^">> /\ HasPrefix(x))]
parseDelimitedValuesKeepingEmpty(rawValues) ==
  [positives |-> SelectSeq(rawValues, LAMBDA x : ~HasPrefix(x)),
   negatives |-> ParseLoop(rawValues, 1, <<>>, <<>>).negatives]

parseDelimitedValues(rawValues) == ParseLoop(rawValues, 1, <<>>, <<>>)

\* a pointer field of constraints.Value: nil, or pointing at a value
\* (NilPtr for strings and lists, NilNum for numbers)
NilPtr == [set |-> FALSE, val |-> <<>>]
NilNum == [set |-> FALSE, val |-> 0]
Ptr(x) == [set |-> TRUE, val |-> x]
Arches == {<<>>, <<"a", "m", "d", "6", "4">>}
Counts == 0..MaxCount
\* constraints.Value, as far as the encoders read it
ConstraintValues ==
  [Arch : {NilPtr} \cup {Ptr(a) : a \in Arches},
   CpuCores : {NilNum} \cup {Ptr(n) : n \in Counts},
   Mem : {NilNum} \cup {Ptr(MaxCount)},
   CpuPower : {NilNum} \cup {Ptr(MaxCount)},
   Tags : {NilPtr} \cup {Ptr(l) : l \in RawLists},
   Spaces : {NilPtr} \cup {Ptr(l) : l \in RawLists}]
NoCons == [Arch |-> NilPtr, CpuCores |-> NilNum, Mem |-> NilNum, CpuPower |-> NilNum,
           Tags |-> NilPtr, Spaces |-> NilPtr]

\* convertTagsToParams(params, tags): params afterwards
convertTagsToParams(v, tags) ==
  IF ~tags.set \/ Len(tags.val) = 0 THEN v
  ELSE LET r == parseDelimitedValues(tags.val)
           withPos == IF Len(r.positives) > 0
                        THEN Add(v, "tags", Join(r.positives, <<",">>))
                        ELSE v
       IN IF Len(r.negatives) > 0
            THEN Add(withPos, "not_tags", Join(r.negatives, <<",">>))
            ELSE withPos

\* convertConstraints up to the call of convertTagsToParams
ScalarParams(cons) ==
  LET a == IF cons.Arch.set THEN Add(NoValues, "arch", cons.Arch.val) ELSE NoValues
      c == IF cons.CpuCores.set THEN Add(a, "cpu_count", Itoa(cons.CpuCores.val)) ELSE a
  IN IF cons.Mem.set THEN Add(c, "mem", Itoa(cons.Mem.val)) ELSE c

\* a variant of convertConstraints that passes cpu-power on
convertConstraintsWithCpuPower(cons) ==
  LET v == convertTagsToParams(ScalarParams(cons), cons.Tags)
  IN IF cons.CpuPower.set THEN Add(v, "cpu_power", Itoa(cons.CpuPower.val)) ELSE v

\* convertConstraints(cons): the url.Values returned (cpu-power is only logged)
convertConstraints(cons) == convertTagsToParams(ScalarParams(cons), cons.Tags)

\* the bindings one of the two loops of convertSpacesToBindings appends,
\* index standing at first when the loop begins
BindingsFor(values, first, excluded) ==
  [k \in 1..Len(values) |->
     [Name |-> Itoa(first + k - 1), SpaceProviderId |-> values[k], IsExcluded |-> excluded]]

\* a variant of convertSpacesToBindings that numbers the negatives from 0 again
convertSpacesToBindingsRestarting(spaces) ==
  IF ~spaces.set \/ Len(spaces.val) = 0 THEN <<>>
  ELSE LET r == parseDelimitedValues(spaces.val)
       IN BindingsFor(r.positives, 0, FALSE) \o BindingsFor(r.negatives, 0, TRUE)

\* convertSpacesToBindings(spaces): the bindings returned (nil is <<>>)
convertSpacesToBindings(spaces) ==
  IF ~spaces.set \/ Len(spaces.val) = 0 THEN <<>>
  ELSE LET r == parseDelimitedValues(spaces.val)
       IN BindingsFor(r.positives, 0, FALSE)
            \o BindingsFor(r.negatives, Len(r.positives), TRUE)

(* ------------------------------ state --------------------------------- *)
VARIABLES
  fs,                    \* the directory tree: PathSet -> "none" | "file" | "dir"
  fs0,                   \* the tree when the call (or the concurrent run) began
  pc,                    \* per caller: where it is in CreateFilesystems
  args,                  \* per caller: the items of the call's []FilesystemParams read so far
  argc,                  \* per caller: len(args) of the call
  idx,                   \* per caller: index of the item the loop is at
  st,                    \* per caller: what lstat gave for the current item
  dfr,                   \* per caller: what the size command gave for it
  filesystems,           \* per caller: the local slice filesystems
  filesystemAttachments, \* per caller: the local slice filesystemAttachments
  ret,                   \* per caller: what CreateFilesystems returned
  last,                  \* per caller: the latest createFilesystem return
  prev,                  \* per caller: the createFilesystem return before it
  opLog,                 \* per caller: directory operations and commands of the call
  dfSeen,                \* per caller: the size command's answers during the call
  attempt,               \* per caller: how often the same args have been tried
  pre,                   \* per caller: the tree when the current item began
  maasPc,                \* where the caller of the MAAS encoders is
  params,                \* the url.Values addInterfaces works on
  paramsIn,              \* params as it was when addInterfaces was called
  bindings,              \* the bindings handed to addInterfaces
  addErr,                \* the error addInterfaces returned
  cons,                  \* the constraints.Value being translated
  rawValues,             \* what parseDelimitedValues was last handed
  positives,             \* the positives it returned
  negatives,             \* the negatives it returned
  firstParams,           \* what the first convertConstraints(cons) returned
  loginPc,               \* where LoginCommand.Run is
  loginCmd,              \* the command's flags: Server.Path given, NewPassword
  serverDetails,         \* the ServerFile read from the server file
  serverPassword,        \* the password the server accepts for the user
  serverInfo,            \* the password in the credentials of serverInfo (in memory)
  store,                 \* the password in the credentials cached in the config store
  password,              \* the password updatePassword generated
  setPasswordErr,        \* whether userManager.SetPassword returned an error
  currentSystem,         \* whether the current system has been written
  loginErr               \* what Run returned ("" is nil)

fsVars == <<fs, fs0, pc, args, argc, idx, st, dfr, filesystems, filesystemAttachments,
            ret, last, prev, opLog, dfSeen, attempt, pre>>
maasVars == <<maasPc, params, paramsIn, bindings, addErr>>
consVars == <<cons, rawValues, positives, negatives, firstParams>>
loginVars == <<loginPc, loginCmd, serverDetails, serverPassword, serverInfo, store,
               password, setPasswordErr, currentSystem, loginErr>>
vars == <<fsVars, maasVars, consVars, loginVars>>

ZeroParams == [Tag |-> "", Size |-> 0, Attachment |-> NoAttachment]
NoInv == [valid |-> FALSE, params |-> ZeroParams, st |-> "", df |-> NoDf,
          fsys |-> ZeroFilesystem, att |-> ZeroAttachment, err |-> Nil]
NoRet == [status |-> "none", fss |-> NilSlice, atts |-> NilSlice, err |-> Nil]
PanicRet == [status |-> "panic", fss |-> NilSlice, atts |-> NilSlice, err |-> Nil]

\* the requests that may stand at index i of a batch
ItemsAt(i) == {p \in FilesystemParams : p.Tag = TagNames[i]}

\* params.Attachment.Path
TargetOf(p) == p.Attachment.Path
Cur(c) == args[c][idx[c]]
CurPath(c) == Cur(c).Attachment.Path
Log(c, op) == opLog' = [opLog EXCEPT ![c] = Append(@, <<idx[c], op>>)]

(* ---------------- createFilesystem, piece by piece -------------------- *)
ValidateAnything(p) == Nil

\* ValidateFilesystemParams
ValidateFilesystemParams(p) ==
  IF ~p.Attachment.present
    THEN Err(NotSupported)
    ELSE Nil

\* createFilesystem, up to the call of validatePath
ValidateErr(p) ==
  IF ValidateFilesystemParams(p) # Nil THEN ValidateFilesystemParams(p)
  ELSE IF p.Attachment.Path = NoPath
    THEN Err(NoPathGiven)
  ELSE Nil

\* the FilesystemAttachment built once validatePath has passed
MakeAttachment(p) ==
  [Filesystem |-> p.Tag, Machine |-> p.Attachment.Machine, Path |-> p.Attachment.Path]

\* sizeInMiB := blocks / 1024
SizeInMiB(blocks) == blocks \div 1024

\* sizeInMiB < params.Size
TooSmall(sizeInMiB, p) == sizeInMiB < p.Size

MakeFilesystemAsRequested(p, sizeInMiB) == [Tag |-> p.Tag, Size |-> p.Size]

\* the Filesystem of a successful return
MakeFilesystem(p, sizeInMiB) == [Tag |-> p.Tag, Size |-> sizeInMiB]

\* createFilesystem from the return of s.run on: what it does with the answer.
\* kind "panic": lines[1] is indexed though SplitN gave a single element.
DfOutcome(p, r) ==
  IF r.failed
    THEN [kind |-> "error", err |-> Annotate(Err("exit status 1"), "getting size"),
          fsys |-> ZeroFilesystem]
  ELSE LET lines == SplitN2(r.out) IN
    IF Len(lines) < 2
      THEN [kind |-> "panic", err |-> Nil, fsys |-> ZeroFilesystem]
    ELSE LET blocks == ParseUint(TrimSpace(lines[2])) IN
      IF ~blocks.ok
        THEN [kind |-> "error", err |-> Annotate(Err("invalid syntax"), "parsing size"),
              fsys |-> ZeroFilesystem]
      ELSE IF TooSmall(SizeInMiB(blocks.val), p)
        THEN [kind |-> "error", err |-> ErrNotBigEnough(SizeInMiB(blocks.val), p.Size),
              fsys |-> ZeroFilesystem]
      ELSE [kind |-> "ok", err |-> Nil, fsys |-> MakeFilesystem(p, SizeInMiB(blocks.val))]

BatchFailureEmptySlices(e) ==
  [status |-> "returned", fss |-> EmptySlice, atts |-> EmptySlice,
   err |-> Annotate(e, "creating filesystem")]

\* what CreateFilesystems returns when an item fails
BatchFailure(e) ==
  [status |-> "returned", fss |-> NilSlice, atts |-> NilSlice,
   err |-> Annotate(e, "creating filesystem")]

\* createFilesystem returns (fsys, att, e) for the current item, leaving the
\* tree nfs, and the loop of CreateFilesystems takes it from there.
ReturnFrom(c, nfs, stv, dfv, fsys, att, e) ==
  /\ prev' = [prev EXCEPT ![c] = last[c]]
  /\ last' = [last EXCEPT ![c] = [valid |-> TRUE, params |-> Cur(c), st |-> stv,
                                  df |-> dfv, fsys |-> fsys, att |-> att, err |-> e]]
  /\ st' = [st EXCEPT ![c] = ""]
  /\ dfr' = [dfr EXCEPT ![c] = NoDf]
  /\ IF e # Nil
       THEN /\ pc' = [pc EXCEPT ![c] = "done"]
            /\ ret' = [ret EXCEPT ![c] = BatchFailure(e)]
            /\ UNCHANGED <<idx, filesystems, filesystemAttachments, pre>>
       ELSE /\ filesystems' = [filesystems EXCEPT ![c] = Append1(@, fsys)]
            /\ filesystemAttachments' =
                 [filesystemAttachments EXCEPT ![c] = Append1(@, att)]
            /\ IF idx[c] = argc[c]
                 THEN /\ pc' = [pc EXCEPT ![c] = "done"]
                      /\ ret' = [ret EXCEPT ![c] =
                                   [status |-> "returned",
                                    fss |-> filesystems'[c],
                                    atts |-> filesystemAttachments'[c],
                                    err |-> Nil]]
                      /\ UNCHANGED <<idx, pre>>
                 ELSE /\ pc' = [pc EXCEPT ![c] = "range"]
                      /\ idx' = [idx EXCEPT ![c] = @ + 1]
                      /\ pre' = [pre EXCEPT ![c] = nfs]
                      /\ UNCHANGED ret

\* a nil dereference or an index out of range: the call never returns, and
\* the invocation leaves no return values behind
PanicFrom(c) ==
  /\ pc' = [pc EXCEPT ![c] = "panicked"]
  /\ ret' = [ret EXCEPT ![c] = PanicRet]
  /\ prev' = [prev EXCEPT ![c] = last[c]]
  /\ last' = [last EXCEPT ![c] = NoInv]
  /\ UNCHANGED <<idx, filesystems, filesystemAttachments, pre>>

\* CreateFilesystems entered with a slice of n items, of which a are known
Enter(c, n, a) ==
  /\ args' = [args EXCEPT ![c] = a]
  /\ argc' = [argc EXCEPT ![c] = n]
  /\ idx' = [idx EXCEPT ![c] = 1]
  /\ st' = [st EXCEPT ![c] = ""]
  /\ dfr' = [dfr EXCEPT ![c] = NoDf]
  /\ filesystems' = [filesystems EXCEPT ![c] = EmptySlice]
  /\ filesystemAttachments' = [filesystemAttachments EXCEPT ![c] = EmptySlice]
  /\ opLog' = [opLog EXCEPT ![c] = <<>>]
  /\ dfSeen' = [dfSeen EXCEPT ![c] = <<>>]
  /\ pre' = [pre EXCEPT ![c] = fs]
  /\ IF n = 0
       THEN /\ pc' = [pc EXCEPT ![c] = "done"]
            /\ ret' = [ret EXCEPT ![c] = [status |-> "returned", fss |-> EmptySlice,
                                          atts |-> EmptySlice, err |-> Nil]]
       ELSE /\ pc' = [pc EXCEPT ![c] = "range"]
            /\ ret' = [ret EXCEPT ![c] = NoRet]
  /\ fs0' = fs
  /\ UNCHANGED <<fs, maasVars, consVars, loginVars>>

(* ------------------------------ actions ------------------------------- *)
\* a caller invokes CreateFilesystems with fresh arguments
Call(c) ==
  /\ pc[c] = "idle"
  /\ \E n \in 0..MaxBatch : Enter(c, n, <<>>)
  /\ attempt' = [attempt EXCEPT ![c] = 1]
  /\ UNCHANGED <<last, prev>>

\* a caller invokes CreateFilesystems for a single request
CallOne(c) ==
  /\ pc[c] = "idle"
  /\ Enter(c, 1, <<>>)
  /\ attempt' = [attempt EXCEPT ![c] = 1]
  /\ UNCHANGED <<last, prev>>

\* the caller is through with the call (its results taken, or the agent
\* restarted after a panic) and will come back with other arguments
Finish(c) ==
  /\ pc[c] \in {"done", "panicked"}
  /\ pc' = [pc EXCEPT ![c] = "idle"]
  /\ args' = [args EXCEPT ![c] = <<>>]
  /\ argc' = [argc EXCEPT ![c] = 0]
  /\ idx' = [idx EXCEPT ![c] = 1]
  /\ st' = [st EXCEPT ![c] = ""]
  /\ dfr' = [dfr EXCEPT ![c] = NoDf]
  /\ filesystems' = [filesystems EXCEPT ![c] = NilSlice]
  /\ filesystemAttachments' = [filesystemAttachments EXCEPT ![c] = NilSlice]
  /\ ret' = [ret EXCEPT ![c] = NoRet]
  /\ last' = [last EXCEPT ![c] = NoInv]
  /\ prev' = [prev EXCEPT ![c] = NoInv]
  /\ opLog' = [opLog EXCEPT ![c] = <<>>]
  /\ dfSeen' = [dfSeen EXCEPT ![c] = <<>>]
  /\ attempt' = [attempt EXCEPT ![c] = 0]
  /\ pre' = [pre EXCEPT ![c] = fs]
  /\ fs0' = fs
  /\ UNCHANGED <<fs, maasVars, consVars, loginVars>>

\* a caller invokes CreateFilesystems again with the arguments of its last call
Retry(c) ==
  /\ pc[c] \in {"done", "panicked"}
  /\ attempt[c] < MaxAttempts
  /\ Enter(c, argc[c], args[c])
  /\ attempt' = [attempt EXCEPT ![c] = @ + 1]
  /\ UNCHANGED <<last, prev>>

\* CreateFilesystems: "for _, arg := range args" reads the item at idx.  The
\* items of a slice are inputs: each is drawn when the loop first reads it, and
\* a retry reads the items already drawn again.
Range(c) ==
  /\ pc[c] = "range"
  /\ pc' = [pc EXCEPT ![c] = "validate"]
  /\ IF idx[c] <= Len(args[c])
       THEN UNCHANGED args
       ELSE \E p \in ItemsAt(idx[c]) : args' = [args EXCEPT ![c] = Append(@, p)]
  /\ UNCHANGED <<fs, fs0, argc, idx, st, dfr, filesystems, filesystemAttachments,
                 ret, last, prev, opLog, dfSeen, attempt, pre, maasVars, consVars, loginVars>>

\* createFilesystem: ValidateFilesystemParams and the empty-path check
Validate(c) ==
  /\ pc[c] = "validate"
  /\ IF ValidateErr(Cur(c)) # Nil
       THEN ReturnFrom(c, fs, "", NoDf, ZeroFilesystem, ZeroAttachment, ValidateErr(Cur(c)))
       ELSE /\ pc' = [pc EXCEPT ![c] = "lstat"]
            /\ UNCHANGED <<idx, st, dfr, filesystems, filesystemAttachments, ret,
                           last, prev, pre>>
  /\ UNCHANGED <<fs, fs0, args, argc, opLog, dfSeen, attempt, maasVars, consVars, loginVars>>

\* validatePath: s.dirFuncs.lstat(path) and the branch on its result
LstatStep(c) ==
  /\ pc[c] = "lstat"
  /\ Log(c, "lstat")
  /\ LET r == Lstat(fs, CurPath(c)) IN
       CASE r = "ENOENT" ->
              /\ pc' = [pc EXCEPT ![c] = "mkParents"]
              /\ st' = [st EXCEPT ![c] = r]
              /\ UNCHANGED <<idx, dfr, filesystems, filesystemAttachments, ret,
                             last, prev, pre>>
         [] r = "ENOTDIR" ->
              \* fi is nil and err is not IsNotExist: fi.IsDir() dereferences nil
              /\ st' = [st EXCEPT ![c] = r]
              /\ PanicFrom(c)
              /\ UNCHANGED dfr
         [] r = "file" ->
              ReturnFrom(c, fs, r, NoDf, ZeroFilesystem, ZeroAttachment,
                         Err(NotADirectory))
         [] r = "dir" ->
              /\ pc' = [pc EXCEPT ![c] = "fileCount"]
              /\ st' = [st EXCEPT ![c] = r]
              /\ UNCHANGED <<idx, dfr, filesystems, filesystemAttachments, ret,
                             last, prev, pre>>
  /\ UNCHANGED <<fs, fs0, args, argc, dfSeen, attempt, maasVars, consVars, loginVars>>

\* validatePath: s.dirFuncs.fileCount(path)
FileCountStep(c) ==
  /\ pc[c] = "fileCount"
  /\ Log(c, "fileCount")
  /\ LET n == FileCount(fs, CurPath(c)) IN
       IF n < 0
         THEN ReturnFrom(c, fs, st[c], NoDf, ZeroFilesystem, ZeroAttachment,
                         Annotate(Err("readdir failed"), "could not read directory"))
       ELSE IF n > 0
         THEN ReturnFrom(c, fs, st[c], NoDf, ZeroFilesystem, ZeroAttachment,
                         Err(PathNotEmpty))
       ELSE /\ pc' = [pc EXCEPT ![c] = "df"]
            /\ UNCHANGED <<idx, st, dfr, filesystems, filesystemAttachments, ret,
                           last, prev, pre>>
  /\ UNCHANGED <<fs, fs0, args, argc, dfSeen, attempt, maasVars, consVars, loginVars>>

\* validatePath: s.dirFuncs.mkDirAll(path, 0755), the parents
MkParentsStep(c) ==
  /\ pc[c] = "mkParents"
  /\ Log(c, "mkDirAll")
  /\ LET m == MkdirParents(fs, CurPath(c)) IN
       /\ fs' = m.fs
       /\ CASE m.result = "fail" ->
                 ReturnFrom(c, m.fs, st[c], NoDf, ZeroFilesystem, ZeroAttachment,
                            Annotate(Err("mkdir failed"), "could not create directory"))
            [] m.result = "done" ->
                 /\ pc' = [pc EXCEPT ![c] = "df"]
                 /\ UNCHANGED <<idx, st, dfr, filesystems, filesystemAttachments,
                                ret, last, prev, pre>>
            [] m.result = "leaf" ->
                 /\ pc' = [pc EXCEPT ![c] = "mkLeaf"]
                 /\ UNCHANGED <<idx, st, dfr, filesystems, filesystemAttachments,
                                ret, last, prev, pre>>
  /\ UNCHANGED <<fs0, args, argc, dfSeen, attempt, maasVars, consVars, loginVars>>

\* validatePath: s.dirFuncs.mkDirAll(path, 0755), the directory itself
MkLeafStep(c) ==
  /\ pc[c] = "mkLeaf"
  /\ LET m == MkdirLeaf(fs, CurPath(c)) IN
       /\ fs' = m.fs
       /\ IF m.result = "fail"
            THEN ReturnFrom(c, m.fs, st[c], NoDf, ZeroFilesystem, ZeroAttachment,
                            Annotate(Err("mkdir failed"), "could not create directory"))
            ELSE /\ pc' = [pc EXCEPT ![c] = "df"]
                 /\ UNCHANGED <<idx, st, dfr, filesystems, filesystemAttachments,
                                ret, last, prev, pre>>
  /\ UNCHANGED <<fs0, args, argc, opLog, dfSeen, attempt, maasVars, consVars, loginVars>>

\* createFilesystem: s.run("df", "--output=size", path) and the parsing of
\* its answer; a failure goes on to os.Remove(path)
RunDf(c) ==
  /\ pc[c] = "df"
  /\ Log(c, "run")
  /\ \E r \in DfResults :
       /\ dfSeen' = [dfSeen EXCEPT ![c] = Append(@, r)]
       /\ LET o == DfOutcome(Cur(c), r) IN
            CASE o.kind = "ok" ->
                   ReturnFrom(c, fs, st[c], r, o.fsys, MakeAttachment(Cur(c)), Nil)
              [] o.kind = "panic" ->
                   /\ dfr' = [dfr EXCEPT ![c] = r]
                   /\ PanicFrom(c)
                   /\ UNCHANGED st
              [] o.kind = "error" ->
                   /\ dfr' = [dfr EXCEPT ![c] = r]
                   /\ pc' = [pc EXCEPT ![c] = "remove"]
                   /\ UNCHANGED <<idx, st, filesystems, filesystemAttachments, ret,
                                  last, prev, pre>>
  /\ UNCHANGED <<fs, fs0, args, argc, attempt, maasVars, consVars, loginVars>>

\* createFilesystem: os.Remove(path), then the error return
RemoveStep(c) ==
  /\ pc[c] = "remove"
  /\ Log(c, "Remove")
  /\ fs' = Remove(fs, CurPath(c))
  /\ ReturnFrom(c, Remove(fs, CurPath(c)), st[c], dfr[c], ZeroFilesystem, MakeAttachment(Cur(c)),
                DfOutcome(Cur(c), dfr[c]).err)
  /\ UNCHANGED <<fs0, args, argc, dfSeen, attempt, maasVars, consVars, loginVars>>

Step(c) ==
  \/ Range(c)
  \/ Validate(c)
  \/ LstatStep(c)
  \/ FileCountStep(c)
  \/ MkParentsStep(c)
  \/ MkLeafStep(c)
  \/ RunDf(c)
  \/ RemoveStep(c)

(* --------------------- one caller, call after call -------------------- *)
IdleCallers ==
  /\ pc = [c \in Callers |-> "idle"]
  /\ args = [c \in Callers |-> <<>>]
  /\ argc = [c \in Callers |-> 0]
  /\ idx = [c \in Callers |-> 1]
  /\ st = [c \in Callers |-> ""]
  /\ dfr = [c \in Callers |-> NoDf]
  /\ filesystems = [c \in Callers |-> NilSlice]
  /\ filesystemAttachments = [c \in Callers |-> NilSlice]
  /\ ret = [c \in Callers |-> NoRet]
  /\ last = [c \in Callers |-> NoInv]
  /\ prev = [c \in Callers |-> NoInv]
  /\ opLog = [c \in Callers |-> <<>>]
  /\ dfSeen = [c \in Callers |-> <<>>]
  /\ attempt = [c \in Callers |-> 0]

MaasIdle ==
  /\ maasPc = "idle"
  /\ params = NoValues
  /\ paramsIn = NoValues
  /\ bindings = <<>>
  /\ addErr = NoError
  /\ cons = NoCons
  /\ rawValues = <<>>
  /\ positives = <<>>
  /\ negatives = <<>>
  /\ firstParams = NoValues

\* passwords a server file may hold, and those utils.RandomPassword may give
FilePasswords == {"secret", "stale"}
RandomPasswords == {"random-1", "random-2"}
NoPassword == ""
NoDetails == [Password |-> NoPassword, Local |-> FALSE, ValidUser |-> FALSE]
\* ServerFile, as far as Run reads it: the password, whether the username is
\* valid, whether its provider is the local one
ServerFiles == [Password : FilePasswords, Local : BOOLEAN, ValidUser : BOOLEAN]
NoCmd == [PathGiven |-> FALSE, NewPassword |-> FALSE]

\* no login is under way; the server accepts "secret", nothing is cached
LoginIdle ==
  /\ loginPc = "idle"
  /\ loginCmd = NoCmd
  /\ serverDetails = NoDetails
  /\ serverPassword = "secret"
  /\ serverInfo = NoPassword
  /\ store = NoPassword
  /\ password = NoPassword
  /\ setPasswordErr = FALSE
  /\ currentSystem = FALSE
  /\ loginErr = ""

Init ==
  /\ fs \in Trees
  /\ fs0 = fs
  /\ pre = [c \in Callers |-> fs]
  /\ IdleCallers
  /\ MaasIdle
  /\ LoginIdle

Next == \E c \in SeqCallers : Call(c) \/ Finish(c) \/ Step(c)

Spec == Init /\ [][Next]_vars

(* ------------- one caller, one request, tried again and again --------- *)
RetryNext == \E c \in SeqCallers : CallOne(c) \/ Retry(c) \/ Finish(c) \/ Step(c)

SpecRetry == Init /\ [][RetryNext]_vars

(* ------------------- two callers, one request each -------------------- *)
\* both calls have been issued, each with a single request, and their steps
\* interleave
ConcInit ==
  /\ fs \in Trees
  /\ fs0 = fs
  /\ pre = [c \in Callers |-> fs]
  /\ pc = [c \in Callers |-> "range"]
  /\ args \in [Callers -> {<<p>> : p \in ItemsAt(1)}]
  /\ argc = [c \in Callers |-> 1]
  /\ idx = [c \in Callers |-> 1]
  /\ st = [c \in Callers |-> ""]
  /\ dfr = [c \in Callers |-> NoDf]
  /\ filesystems = [c \in Callers |-> EmptySlice]
  /\ filesystemAttachments = [c \in Callers |-> EmptySlice]
  /\ ret = [c \in Callers |-> NoRet]
  /\ last = [c \in Callers |-> NoInv]
  /\ prev = [c \in Callers |-> NoInv]
  /\ opLog = [c \in Callers |-> <<>>]
  /\ dfSeen = [c \in Callers |-> <<>>]
  /\ attempt = [c \in Callers |-> 1]
  /\ MaasIdle
  /\ LoginIdle

ConcNext == \E c \in Callers : Step(c)

SpecConc == ConcInit /\ [][ConcNext]_vars

(* ----------------------- MAAS: acquiring a node ------------------------ *)
\* the parameter sets addInterfaces may be handed
ParamSets == {NoValues,
              Add(NoValues, "arch", <<"a", "m", "d", "6", "4">>),
              Add(NoValues, "interfaces", <<"9", ":", "s", "p", "a", "c", "e", "=", "x">>)}

\* the caller has a parameter set and a list of bindings at hand
PrepareBindings ==
  /\ maasPc = "idle"
  /\ maasPc' = "ready"
  /\ \E v \in ParamSets, bs \in BindingLists :
       /\ params' = v
       /\ paramsIn' = v
       /\ bindings' = bs
  /\ addErr' = NoError
  /\ UNCHANGED <<fsVars, consVars, loginVars>>

\* addInterfaces(params, bindings)
AddInterfaces ==
  /\ maasPc = "ready"
  /\ maasPc' = "called"
  /\ params' = addInterfaces(params, bindings).params
  /\ addErr' = addInterfaces(params, bindings).err
  /\ UNCHANGED <<paramsIn, bindings, fsVars, consVars, loginVars>>

\* the caller is through with the parameter set
MaasDone ==
  /\ maasPc \in {"called", "again"}
  /\ maasPc' = "idle"
  /\ params' = NoValues
  /\ paramsIn' = NoValues
  /\ bindings' = <<>>
  /\ addErr' = NoError
  /\ cons' = NoCons
  /\ rawValues' = <<>>
  /\ positives' = <<>>
  /\ negatives' = <<>>
  /\ firstParams' = NoValues
  /\ UNCHANGED <<fsVars, loginVars>>

MaasInit ==
  /\ fs = [p \in PathSet |-> "none"]
  /\ fs0 = fs
  /\ pre = [c \in Callers |-> fs]
  /\ IdleCallers
  /\ MaasIdle
  /\ LoginIdle

MaasNext == PrepareBindings \/ AddInterfaces \/ MaasDone

SpecMaas == MaasInit /\ [][MaasNext]_vars

(* ------------------ MAAS: translating constraints --------------------- *)
\* parseDelimitedValues(raw) is called when the list is there and not empty;
\* its argument and its two results are kept
Parsed(list) ==
  IF ~list.set \/ Len(list.val) = 0
    THEN UNCHANGED <<rawValues, positives, negatives>>
    ELSE /\ rawValues' = list.val
         /\ positives' = parseDelimitedValues(list.val).positives
         /\ negatives' = parseDelimitedValues(list.val).negatives

\* the caller has a constraints.Value to translate
TakeConstraints ==
  /\ maasPc = "idle"
  /\ maasPc' = "cons"
  /\ cons' \in {c \in ConstraintValues : ~c.Spaces.set}
  /\ UNCHANGED <<params, paramsIn, bindings, addErr, rawValues, positives, negatives,
                 firstParams, fsVars, loginVars>>

\* params := convertConstraints(cons)
ConvertConstraints ==
  /\ maasPc = "cons"
  /\ maasPc' = "converted"
  /\ params' = convertConstraints(cons)
  /\ firstParams' = params'
  /\ Parsed(cons.Tags)
  /\ UNCHANGED <<paramsIn, bindings, addErr, cons, fsVars, loginVars>>

\* convertConstraints(cons) once more, on the same value
ConvertAgain ==
  /\ maasPc = "converted"
  /\ maasPc' = "again"
  /\ params' = convertConstraints(cons)
  /\ Parsed(cons.Tags)
  /\ UNCHANGED <<paramsIn, bindings, addErr, cons, firstParams, fsVars, loginVars>>

ConsNext == TakeConstraints \/ ConvertConstraints \/ ConvertAgain \/ MaasDone

SpecCons == MaasInit /\ [][ConsNext]_vars

(* --------------------- MAAS: spaces to bindings ----------------------- *)
\* the caller has a spaces constraint and the parameters made so far
TakeSpaces ==
  /\ maasPc = "idle"
  /\ maasPc' = "spaces"
  /\ \E l \in {NilPtr} \cup {Ptr(r) : r \in RawLists} :
       cons' = [NoCons EXCEPT !.Spaces = l]
  /\ \E v \in ParamSets : params' = v /\ paramsIn' = v
  /\ UNCHANGED <<bindings, addErr, rawValues, positives, negatives, firstParams, fsVars, loginVars>>

\* bindings := convertSpacesToBindings(cons.Spaces)
ConvertSpaces ==
  /\ maasPc = "spaces"
  /\ maasPc' = "ready"
  /\ bindings' = convertSpacesToBindings(cons.Spaces)
  /\ Parsed(cons.Spaces)
  /\ UNCHANGED <<params, paramsIn, addErr, cons, firstParams, fsVars, loginVars>>

SpacesNext == TakeSpaces \/ ConvertSpaces \/ AddInterfaces \/ MaasDone

SpecSpaces == MaasInit /\ [][SpacesNext]_vars

(* ------------------------- the login command -------------------------- *)
otherVars == <<fsVars, maasVars, consVars>>

\* Run returns e ("" for nil)
LoginReturn(e) ==
  /\ loginPc' = "returned"
  /\ loginErr' = e

\* the command is run, with or without --server, with or without --new-password
LoginInvoke ==
  /\ loginPc = "idle"
  /\ loginPc' = "read"
  /\ loginCmd' \in [PathGiven : BOOLEAN, NewPassword : BOOLEAN]
  /\ UNCHANGED <<serverDetails, serverPassword, serverInfo, store, password,
                 setPasswordErr, currentSystem, loginErr, otherVars>>

\* Run: the server file is read and unmarshalled, the username and the
\* provider are checked
ReadServerFile ==
  /\ loginPc = "read"
  /\ IF ~loginCmd.PathGiven
       THEN LoginReturn("no server file specified") /\ UNCHANGED serverDetails
       ELSE \/ LoginReturn("cannot read server file") /\ UNCHANGED serverDetails
            \/ LoginReturn("cannot unmarshal server file") /\ UNCHANGED serverDetails
            \/ \E d \in ServerFiles :
                 /\ serverDetails' = d
                 /\ IF ~d.ValidUser
                      THEN LoginReturn("not a valid username")
                    ELSE IF ~d.Local /\ loginCmd.NewPassword
                      THEN LoginReturn("changing passwords is not supported for non-local users")
                    ELSE loginPc' = "open" /\ UNCHANGED loginErr
  /\ UNCHANGED <<loginCmd, serverPassword, serverInfo, store, password, setPasswordErr,
                 currentSystem, otherVars>>

\* Run: c.apiOpen(&info, ...) logs in with the password of the server file;
\* it can succeed only with the password the server accepts
ApiOpen ==
  /\ loginPc = "open"
  /\ \/ /\ serverDetails.Password = serverPassword
        /\ loginPc' = "cache"
        /\ UNCHANGED loginErr
     \/ LoginReturn("cannot open api")
  /\ UNCHANGED <<loginCmd, serverDetails, serverPassword, serverInfo, store, password,
                 setPasswordErr, currentSystem, otherVars>>

\* cacheConnectionInfo: it fails before the credentials are set, or sets them
\* and fails to write, or sets and writes them
CacheConnectionInfo ==
  /\ loginPc = "cache"
  /\ \/ LoginReturn("cannot cache connection info") /\ UNCHANGED <<serverInfo, store>>
     \/ /\ serverInfo' = serverDetails.Password
        /\ LoginReturn("cannot write connection info")
        /\ UNCHANGED store
     \/ /\ serverInfo' = serverDetails.Password
        /\ store' = serverDetails.Password
        /\ loginPc' = IF loginCmd.NewPassword THEN "random" ELSE "current"
        /\ UNCHANGED loginErr
  /\ UNCHANGED <<loginCmd, serverDetails, serverPassword, password, setPasswordErr,
                 currentSystem, otherVars>>

\* updatePassword: utils.RandomPassword()
RandomPassword ==
  /\ loginPc = "random"
  /\ \/ \E p \in RandomPasswords :
          /\ password' = p
          /\ loginPc' = "manager"
          /\ UNCHANGED loginErr
     \/ LoginReturn("failed to generate random password") /\ UNCHANGED password
  /\ UNCHANGED <<loginCmd, serverDetails, serverPassword, serverInfo, store,
                 setPasswordErr, currentSystem, otherVars>>

\* updatePassword: c.getUserManager(conn)
GetUserManager ==
  /\ loginPc = "manager"
  /\ \/ loginPc' = "setPassword" /\ UNCHANGED loginErr
     \/ LoginReturn("cannot get user manager")
  /\ UNCHANGED <<loginCmd, serverDetails, serverPassword, serverInfo, store, password,
                 setPasswordErr, currentSystem, otherVars>>

\* updatePassword: userManager.SetPassword(userTag.Name(), password).  On an
\* error the code evaluates errors.Trace(err) and drops the result: there is
\* no return, and updatePassword goes on.
SetPassword ==
  /\ loginPc = "setPassword"
  /\ loginPc' = "store"
  /\ \/ serverPassword' = password /\ UNCHANGED setPasswordErr
     \/ setPasswordErr' = TRUE /\ UNCHANGED serverPassword
  /\ UNCHANGED <<loginCmd, serverDetails, serverInfo, store, password, currentSystem,
                 loginErr, otherVars>>

\* updatePassword: the new password is put into serverInfo's credentials and
\* serverInfo is written
StoreCredentials ==
  /\ loginPc = "store"
  /\ serverInfo' = password
  /\ \/ /\ store' = password
        /\ loginPc' = "current"
        /\ UNCHANGED loginErr
     \/ LoginReturn("cannot write connection info") /\ UNCHANGED store
  /\ UNCHANGED <<loginCmd, serverDetails, serverPassword, password, setPasswordErr,
                 currentSystem, otherVars>>

\* Run: envcmd.WriteCurrentSystem(c.Name), then return nil
WriteCurrentSystem ==
  /\ loginPc = "current"
  /\ \/ currentSystem' = TRUE /\ LoginReturn("")
     \/ LoginReturn("cannot write current system") /\ UNCHANGED currentSystem
  /\ UNCHANGED <<loginCmd, serverDetails, serverPassword, serverInfo, store, password,
                 setPasswordErr, otherVars>>

\* the command has ended; what the server accepts and what is cached stay
LoginFinish ==
  /\ loginPc = "returned"
  /\ loginPc' = "idle"
  /\ loginCmd' = NoCmd
  /\ serverDetails' = NoDetails
  /\ serverInfo' = NoPassword
  /\ password' = NoPassword
  /\ setPasswordErr' = FALSE
  /\ loginErr' = ""
  /\ UNCHANGED <<serverPassword, store, currentSystem, otherVars>>

LoginNext ==
  \/ LoginInvoke \/ ReadServerFile \/ ApiOpen \/ CacheConnectionInfo \/ RandomPassword
  \/ GetUserManager \/ SetPassword \/ StoreCredentials \/ WriteCurrentSystem
  \/ LoginFinish

SpecLogin == MaasInit /\ [][LoginNext]_vars

(* ----------------- CreateFilesystems run on its own -------------------- *)
\* validatePath on the tree f, with nobody else at work
ValidatePathAlone(f, path) ==
  LET r == Lstat(f, path) IN
  CASE r = "ENOTDIR" -> [kind |-> "panic", err |-> Nil, fs |-> f]
    [] r = "file" -> [kind |-> "error", err |-> Err(NotADirectory), fs |-> f]
    [] r = "dir" ->
         IF FileCount(f, path) < 0
           THEN [kind |-> "error", fs |-> f,
                 err |-> Annotate(Err("readdir failed"), "could not read directory")]
         ELSE IF FileCount(f, path) > 0
           THEN [kind |-> "error", err |-> Err(PathNotEmpty), fs |-> f]
         ELSE [kind |-> "ok", err |-> Nil, fs |-> f]
    [] r = "ENOENT" ->
         LET m == MkdirParents(f, path)
             l == MkdirLeaf(m.fs, path)
         IN IF m.result = "fail"
              THEN [kind |-> "error", fs |-> m.fs,
                    err |-> Annotate(Err("mkdir failed"), "could not create directory")]
            ELSE IF m.result = "done" THEN [kind |-> "ok", err |-> Nil, fs |-> m.fs]
            ELSE IF l.result = "fail"
              THEN [kind |-> "error", fs |-> l.fs,
                    err |-> Annotate(Err("mkdir failed"), "could not create directory")]
            ELSE [kind |-> "ok", err |-> Nil, fs |-> l.fs]

\* createFilesystem on the tree f, with nobody else at work; r is the answer
\* of the size command, NoDf when none is at hand (kind "unknown" then)
CreateFilesystemAlone(f, p, r) ==
  IF ValidateErr(p) # Nil
    THEN [kind |-> "error", err |-> ValidateErr(p), fs |-> f,
          fsys |-> ZeroFilesystem, att |-> ZeroAttachment]
  ELSE LET v == ValidatePathAlone(f, TargetOf(p)) IN
    IF v.kind # "ok"
      THEN [kind |-> v.kind, err |-> v.err, fs |-> v.fs,
            fsys |-> ZeroFilesystem, att |-> ZeroAttachment]
    ELSE IF r = NoDf
      THEN [kind |-> "unknown", err |-> Nil, fs |-> v.fs,
            fsys |-> ZeroFilesystem, att |-> ZeroAttachment]
    ELSE LET o == DfOutcome(p, r) IN
      [kind |-> o.kind, err |-> o.err,
       fs |-> IF o.kind = "error" THEN Remove(v.fs, TargetOf(p)) ELSE v.fs,
       fsys |-> o.fsys, att |-> MakeAttachment(p)]

\* CreateFilesystems(a) on the tree f from item i on, with nobody else at
\* work, the size command answering dfs[1], dfs[2], ... in turn
RECURSIVE CreateFilesystemsAlone(_, _, _, _, _, _)
CreateFilesystemsAlone(f, a, dfs, i, fss, atts) ==
  IF i > Len(a)
    THEN [fs |-> f,
          ret |-> [status |-> "returned", fss |-> fss, atts |-> atts, err |-> Nil]]
  ELSE LET r == IF Len(dfs) > 0 THEN Head(dfs) ELSE NoDf
           o == CreateFilesystemAlone(f, a[i], r)
           used == ValidateErr(a[i]) = Nil
                     /\ ValidatePathAlone(f, TargetOf(a[i])).kind = "ok"
       IN CASE o.kind = "ok" ->
                 CreateFilesystemsAlone(o.fs, a, IF used THEN Tail(dfs) ELSE dfs, i + 1,
                                        Append1(fss, o.fsys), Append1(atts, o.att))
            [] o.kind = "error" -> [fs |-> o.fs, ret |-> BatchFailure(o.err)]
            [] o.kind = "panic" -> [fs |-> o.fs, ret |-> PanicRet]
            [] o.kind = "unknown" -> [fs |-> o.fs, ret |-> NoRet]

Alone(c) == CreateFilesystemsAlone(fs0, args[c], dfSeen[c], 1, EmptySlice, EmptySlice)

(* ============================ properties ============================== *)
Returned(c) == pc[c] = "done" /\ argc[c] > 0 /\ last[c].valid
Failed(c) == Returned(c) /\ ret[c].err # Nil
\* the size command was run for the invocation recorded in r
RanDf(r) == r.valid /\ r.df # NoDf
\* the block count an answer of the size command carries on its second line
HasBlocks(r) ==
  /\ ~r.failed
  /\ Len(SplitN2(r.out)) = 2
  /\ ParseUint(TrimSpace(SplitN2(r.out)[2])).ok
Blocks(r) == ParseUint(TrimSpace(SplitN2(r.out)[2])).val
OpsOf(c, i) == {k \in 1..Len(opLog[c]) : opLog[c][k][1] = i}
Finished(c) == pc[c] \in {"done", "panicked"}
IsPrefix(p, q) == Len(p) <= Len(q) /\ SubSeq(q, 1, Len(p)) = p
HasTarget(p) == p.Attachment.present /\ TargetOf(p) # NoPath
Subtree(f, p) == [q \in {r \in PathSet : Len(r) >= Len(p) /\ SubSeq(r, 1, Len(p)) = p} |-> f[q]]

\* C1: when validation and validatePath pass and the measured capacity
\* (blocks / 1024) is below the requested size, createFilesystem returns an
\* error and the target directory is gone afterwards; an identical call made
\* right after finds the path absent (lstat gives "does not exist").
C1_RollbackOnCapacityFailure ==
  \A c \in SeqCallers :
    /\ (Returned(c) /\ RanDf(last[c]) /\ HasBlocks(last[c].df)
          /\ Blocks(last[c].df) \div 1024 < last[c].params.Size)
         => /\ last[c].err.kind = NotBigEnough
            /\ ret[c].err # Nil
            /\ Lstat(fs, TargetOf(last[c].params)) = "ENOENT"
    /\ (st[c] # "" /\ last[c].valid /\ last[c].err.kind = NotBigEnough
          /\ last[c].params = Cur(c))
         => st[c] = "ENOENT"
    /\ (last[c].valid /\ prev[c].valid /\ prev[c].err.kind = NotBigEnough
          /\ prev[c].params = last[c].params)
         => last[c].st = "ENOENT"

\* C1 witness: the retry of a request that failed for lack of capacity has
\* just found its path absent and is about to create the directory again.
C1_Witness ==
  \E c \in SeqCallers :
    /\ attempt[c] = 2 /\ pc[c] = "mkParents" /\ st[c] = "ENOENT"
    /\ last[c].valid /\ last[c].err.kind = NotBigEnough /\ last[c].params = Cur(c)
    /\ last[c].st = "dir"

\* C2: whatever the size command gives after validatePath has passed (an
\* error, or an output with no parsable unsigned number on its second line,
\* an output with no second line included), the call returns an annotated
\* error and the target directory has been removed.
C2_SizeFailureIsReported ==
  \A c \in SeqCallers :
    LET r == IF pc[c] = "panicked" THEN dfr[c] ELSE last[c].df IN
    (pc[c] \in {"done", "panicked"} /\ argc[c] > 0 /\ r # NoDf /\ ~HasBlocks(r))
      => /\ ret[c].status = "returned"
         /\ ret[c].err # Nil
         /\ last[c].err.annot # <<>>
         /\ Lstat(fs, TargetOf(Cur(c))) = "ENOENT"

\* C3: CreateFilesystems works through its parameters in input order and
\* stops at the first item that fails: it returns an error with nil
\* filesystems and nil attachments, every item before the failing one had
\* succeeded, and nothing (no directory operation, no size command) is done
\* for an item after it.
C3_FailFast ==
  \A c \in SeqCallers :
    /\ \A j, k \in 1..Len(opLog[c]) : j < k => opLog[c][j][1] <= opLog[c][k][1]
    /\ Failed(c) =>
         /\ ret[c].status = "returned"
         /\ ret[c].fss = NilSlice /\ ret[c].atts = NilSlice
         /\ Len(filesystems[c].elems) = idx[c] - 1
         /\ Len(args[c]) = idx[c]
         /\ \A i \in (idx[c] + 1)..argc[c] : OpsOf(c, i) = {}

\* C3 witness: the first item of a two-item batch failed after its directory
\* had been worked on, and the call has returned.
C3_Witness ==
  \E c \in SeqCallers :
    /\ Failed(c) /\ idx[c] < argc[c] /\ OpsOf(c, idx[c]) # {}

\* C4 as stated: when the call fails at item k, the directory of every
\* earlier item still exists.
C4_NoRollbackOfEarlierItems ==
  \A c \in SeqCallers :
    Failed(c) =>
      \A i \in 1..(idx[c] - 1) : Kind(fs, TargetOf(args[c][i])) = "dir"

\* C4 amended: when the call fails at item k, the directory of an earlier
\* item still exists unless item k names the same path and failed after
\* validatePath had passed (in the size step), in which case it is gone.
C4_NoRollbackUnlessSamePath ==
  \A c \in SeqCallers :
    Failed(c) =>
      \A i \in 1..(idx[c] - 1) :
        (Kind(fs, TargetOf(args[c][i])) = "dir")
          <=> ~(TargetOf(args[c][i]) = TargetOf(args[c][idx[c]]) /\ RanDf(last[c]))

\* C4 witness: the second item failed in the size step on a path of its own,
\* after the first had succeeded.
C4_Witness ==
  \E c \in SeqCallers :
    /\ Failed(c) /\ idx[c] = 2 /\ RanDf(last[c])
    /\ TargetOf(args[c][1]) # TargetOf(args[c][2])
    /\ Kind(fs, TargetOf(args[c][1])) = "dir"

\* C5: a target that exists and is no directory, or is a directory with at
\* least one entry, makes the call fail in validatePath; the size command is
\* not run and the path and what is below it are as before the call.
C5_PopulatedTargetUntouched ==
  \A c \in SeqCallers :
    (pc[c] \in {"done", "panicked"} /\ argc[c] > 0
       /\ Cur(c).Attachment.present /\ TargetOf(Cur(c)) # NoPath
       /\ \/ Lstat(pre[c], TargetOf(Cur(c))) = "file"
          \/ /\ Lstat(pre[c], TargetOf(Cur(c))) = "dir"
             /\ \E q \in Children(TargetOf(Cur(c))) : pre[c][q] # "none")
      => /\ Failed(c)
         /\ last[c].params = Cur(c)
         /\ last[c].err.kind \in {NotADirectory, PathNotEmpty}
         /\ \A k \in OpsOf(c, idx[c]) : opLog[c][k][2] \in {"lstat", "fileCount"}
         /\ Subtree(fs, TargetOf(Cur(c))) = Subtree(pre[c], TargetOf(Cur(c)))

\* C5 witness: a call on a populated directory has returned.
C5_Witness ==
  \E c \in SeqCallers :
    /\ Failed(c) /\ last[c].err.kind = PathNotEmpty
    /\ \E q \in Children(TargetOf(Cur(c))) : fs[q] # "none"

\* C6: a request without machine attachment fails with NotSupported, one
\* with an empty mount path fails with an error; either way nothing is done
\* to the directory tree (no lstat, mkDirAll, size command or Remove) and the
\* zero Filesystem and FilesystemAttachment are returned.
C6_InvalidRequestTouchesNothing ==
  \A c \in SeqCallers :
    (Returned(c) /\ (~last[c].params.Attachment.present
                       \/ TargetOf(last[c].params) = NoPath))
      => /\ Failed(c)
         /\ ~last[c].params.Attachment.present => last[c].err.kind = NotSupported
         /\ last[c].params.Attachment.present => last[c].err.kind = NoPathGiven
         /\ OpsOf(c, idx[c]) = {}
         /\ last[c].fsys = ZeroFilesystem /\ last[c].att = ZeroAttachment
         /\ ret[c].fss = NilSlice /\ ret[c].atts = NilSlice
         /\ fs = pre[c]

\* C6 witness: a request without attachment has been refused after an
\* earlier item of the batch succeeded.
C6_Witness ==
  \E c \in SeqCallers :
    /\ Failed(c) /\ idx[c] = 2 /\ ~last[c].params.Attachment.present

\* C7: two createFilesystem calls in a row with the same parameters and the
\* same answer of the size command, the first of which succeeded (as it does
\* on an existing empty directory with sufficient capacity): the second
\* succeeds with the same Filesystem and FilesystemAttachment, and after each
\* the directory exists and is empty.
C7_IdempotentOnEmptyTarget ==
  \A c \in SeqCallers :
    /\ (Returned(c) /\ last[c].err = Nil)
         => /\ Kind(fs, TargetOf(last[c].params)) = "dir"
            /\ FileCount(fs, TargetOf(last[c].params)) = 0
    /\ (Returned(c) /\ prev[c].valid /\ prev[c].err = Nil
          /\ prev[c].params = last[c].params /\ RanDf(last[c])
          /\ prev[c].df = last[c].df)
         => /\ last[c].err = Nil
            /\ last[c].st = "dir"
            /\ last[c].fsys = prev[c].fsys
            /\ last[c].att = prev[c].att

\* C7 witness: the second of two successful identical calls on a directory
\* that existed, empty, before the first has returned.
C7_Witness ==
  \E c \in SeqCallers :
    /\ Returned(c) /\ attempt[c] = 2 /\ prev[c].valid /\ prev[c].st = "dir"
    /\ prev[c].err = Nil /\ last[c].err = Nil
    /\ prev[c].params = last[c].params /\ prev[c].df = last[c].df

\* C8: when validation passes and the size command reports b blocks,
\* createFilesystem succeeds exactly when b / 1024 (rounded down) is at least
\* the requested size; the Filesystem it returns then has the request's tag
\* and Size b / 1024, the FilesystemAttachment the request's tag, machine and
\* path.
C8_MeasuredSizeDecides ==
  \A c \in SeqCallers :
    (RanDf(last[c]) /\ HasBlocks(last[c].df)) =>
      LET p == last[c].params
          mib == Blocks(last[c].df) \div 1024
      IN /\ (last[c].err = Nil) <=> (mib >= p.Size)
         /\ last[c].err = Nil =>
              /\ last[c].fsys = [Tag |-> p.Tag, Size |-> mib]
              /\ last[c].att = [Filesystem |-> p.Tag, Machine |-> p.Attachment.Machine,
                                Path |-> p.Attachment.Path]

\* C8 witness: a request for 1 MiB answered with 2047 blocks succeeded with
\* Size 1.
C8_Witness ==
  \E c \in SeqCallers :
    /\ RanDf(last[c]) /\ HasBlocks(last[c].df) /\ Blocks(last[c].df) = 2047
    /\ last[c].params.Size = 1 /\ last[c].err = Nil /\ last[c].fsys.Size = 1

\* C9 as stated: concurrent calls whose requests all name distinct paths do
\* not interfere: each returns what it would return running alone from the
\* initial tree (the size command answering alike), and leaves its own target
\* as it would alone.
C9_NoInterferenceOnDistinctPaths ==
  (/\ \A c \in Callers : HasTarget(args[c][1])
   /\ \A c, d \in Callers : c # d => TargetOf(args[c][1]) # TargetOf(args[d][1]))
    => \A c \in Callers :
         Finished(c) =>
           /\ ret[c] = Alone(c).ret
           /\ (\A d \in Callers : Finished(d))
                => Kind(fs, TargetOf(args[c][1])) = Kind(Alone(c).fs, TargetOf(args[c][1]))

\* C9 amended: concurrent calls do not interfere when no request's path is
\* equal to, or lies below, the path of another call's request: then each
\* call returns what it would return running alone from the initial tree,
\* and its own target is, from its return on, as it would be alone.
C9_NoInterferenceOnUnrelatedPaths ==
  (/\ \A c \in Callers : HasTarget(args[c][1])
   /\ \A c, d \in Callers :
        c # d => ~IsPrefix(TargetOf(args[c][1]), TargetOf(args[d][1])))
    => \A c \in Callers :
         Finished(c) =>
           /\ ret[c] = Alone(c).ret
           /\ Kind(fs, TargetOf(args[c][1])) = Kind(Alone(c).fs, TargetOf(args[c][1]))

\* C9 witness: two calls on sibling paths below a directory neither found
\* have both finished, one with its directory made, one having removed its own.
C9_Witness ==
  /\ \A c \in Callers : Finished(c) /\ HasTarget(args[c][1])
  /\ TargetOf(args[1][1]) = <<"a", "b">> /\ TargetOf(args[2][1]) = <<"a", "d">>
  /\ fs0[<<"a">>] = "none"
  /\ ret[1].status = "returned" /\ ret[1].err = Nil
  /\ ret[2].status = "returned" /\ ret[2].err # Nil /\ RanDf(last[2])
  /\ opLog[1][1] = <<1, "lstat">> /\ opLog[2][1] = <<1, "lstat">>

\* what a call of the one-caller specifications returns is what
\* CreateFilesystemsAlone computes
AloneAgrees ==
  \A c \in SeqCallers :
    (Finished(c) /\ argc[c] > 0) => ret[c] = Alone(c).ret /\ fs = Alone(c).fs

\* C10: addInterfaces is all-or-nothing: when some binding has an empty
\* name, an empty space id, or a name seen earlier in the list, it returns a
\* not-valid error (naming the duplicate in that case) and the parameters are
\* as before the call, even when valid bindings stand before the bad one; it
\* returns no error otherwise.
C10_AddInterfacesAllOrNothing ==
  LET bad == {i \in 1..Len(bindings) :
                \/ bindings[i].Name = <<>>
                \/ bindings[i].SpaceProviderId = <<>>
                \/ \E j \in 1..(i - 1) : bindings[j].Name = bindings[i].Name}
      first == CHOOSE i \in bad : \A j \in bad : i <= j
  IN maasPc = "called" =>
     /\ (bad # {}) <=> (addErr # NoError)
     /\ bad # {} =>
          /\ addErr.kind = "NotValid"
          /\ params = paramsIn
          /\ (bindings[first].Name # <<>> /\ bindings[first].SpaceProviderId # <<>>)
               => /\ addErr.msg = "duplicated interface binding"
                  /\ addErr.name = bindings[first].Name

\* C10 witness: a valid binding followed by one that repeats its name was
\* refused, on a parameter set that held something already.
C10_Witness ==
  /\ maasPc = "called"
  /\ Len(bindings) = 2
  /\ bindings[1].Name = <<"0">> /\ bindings[1].SpaceProviderId # <<>>
  /\ bindings[2].Name = <<"0">> /\ bindings[2].SpaceProviderId # <<>>
  /\ addErr.msg = "duplicated interface binding"
  /\ paramsIn # NoValues /\ params = paramsIn

\* the entries parseDelimitedValues does not drop
Kept(x) == x # <<>> /\ x # <<"^">>

\* C11: parseDelimitedValues splits its input exhaustively and exclusively:
\* the positives are exactly the input's entries that are neither empty nor
\* "^" nor start with "^", unchanged and in input order; the negatives are
\* exactly the entries that start with "^" and are not "^", each without its
\* first "^", in input order; empty and "^" entries are in neither.
C11_ParsePartitions ==
  LET marked == SelectSeq(rawValues, LAMBDA x : Kept(x) /\ x[1] = "^")
  IN maasPc \in {"converted", "again"} =>
       /\ positives = SelectSeq(rawValues, LAMBDA x : Kept(x) /\ x[1] # "^")
       /\ negatives = [k \in 1..Len(marked) |-> Tail(marked[k])]
       /\ Len(positives) + Len(negatives)
            = Cardinality({i \in 1..Len(rawValues) : Kept(rawValues[i])})

\* C11 witness: the tags "b", "^a", "" have been split into "b" and "a".
C11_Witness ==
  /\ maasPc = "converted"
  /\ rawValues = << <<"b">>, <<"^", "a">>, <<>> >>
  /\ positives = << <<"b">> >>
  /\ negatives = << <<"a">> >>

\* the spaces constraint as a list (none for a nil pointer)
SpacesGiven == IF cons.Spaces.set THEN cons.Spaces.val ELSE <<>>

\* C12: convertSpacesToBindings names its bindings "0", "1", ... without
\* gaps; the positive spaces come first, in input order and not excluded,
\* then the negative ones, in input order, excluded and without their "^";
\* there is one binding per entry that is neither empty nor "^".
C12_BindingsNumberedPositivesFirst ==
  LET pos == SelectSeq(SpacesGiven, LAMBDA x : Kept(x) /\ x[1] # "^")
      neg == SelectSeq(SpacesGiven, LAMBDA x : Kept(x) /\ x[1] = "^")
  IN maasPc \in {"ready", "called"} =>
       /\ Len(bindings) = Cardinality({i \in 1..Len(SpacesGiven) : Kept(SpacesGiven[i])})
       /\ Len(bindings) = Len(pos) + Len(neg)
       /\ \A k \in 1..Len(bindings) :
            /\ bindings[k].Name = <<DigitChar[k]>>
            /\ k <= Len(pos) =>
                 /\ ~bindings[k].IsExcluded
                 /\ bindings[k].SpaceProviderId = pos[k]
            /\ k > Len(pos) =>
                 /\ bindings[k].IsExcluded
                 /\ bindings[k].SpaceProviderId = Tail(neg[k - Len(pos)])

\* C12 witness: the spaces "^a", "", "b" gave binding "0" for b and, after
\* it, binding "1" excluding a.
C12_Witness ==
  /\ maasPc = "ready"
  /\ SpacesGiven = << <<"^", "a">>, <<>>, <<"b">> >>
  /\ bindings = << [Name |-> <<"0">>, SpaceProviderId |-> <<"b">>, IsExcluded |-> FALSE],
                   [Name |-> <<"1">>, SpaceProviderId |-> <<"a">>, IsExcluded |-> TRUE] >>

\* the url.Values v holds the key k
Has(v, k) == v[k] # <<>>

\* C13: convertConstraints returns for every constraints value (it has no
\* error to return), a second translation of the same value gives the same
\* parameters, and these hold no key but arch, cpu_count, mem, tags and
\* not_tags: arch, cpu_count and mem exactly when the field is set, and
\* nothing for cpu-power, set or not.
C13_ConvertConstraintsTotalDeterministic ==
  /\ maasPc = "cons" => ENABLED ConvertConstraints
  /\ maasPc = "converted" => ENABLED ConvertAgain
  /\ maasPc \in {"converted", "again"} =>
       /\ \A k \in Keys :
            Has(params, k) => k \in {"arch", "cpu_count", "mem", "tags", "not_tags"}
       /\ Has(params, "arch") <=> cons.Arch.set
       /\ Has(params, "cpu_count") <=> cons.CpuCores.set
       /\ Has(params, "mem") <=> cons.Mem.set
       /\ ~Has(params, "cpu_power")
  /\ maasPc = "again" => params = firstParams

\* C13 witness: a value with arch, mem, tags and cpu-power set has been
\* translated twice.
C13_Witness ==
  /\ maasPc = "again"
  /\ cons.CpuPower.set /\ cons.Arch.set /\ cons.Mem.set /\ ~cons.CpuCores.set
  /\ cons.Tags.set /\ Has(params, "tags") /\ Has(params, "not_tags")
  /\ Has(params, "arch") /\ Has(params, "mem")

\* C14: when every item of a batch succeeds, CreateFilesystems returns one
\* Filesystem and one FilesystemAttachment per parameter, in input order: the
\* i-th of each carries the i-th parameter's tag, and the i-th attachment
\* its machine and path.
C14_OneResultPerItemInOrder ==
  \A c \in SeqCallers :
    (pc[c] = "done" /\ ret[c].status = "returned" /\ ret[c].err = Nil) =>
      /\ Len(args[c]) = argc[c]
      /\ ~ret[c].fss.isNil /\ ~ret[c].atts.isNil
      /\ Len(ret[c].fss.elems) = argc[c]
      /\ Len(ret[c].atts.elems) = argc[c]
      /\ \A i \in 1..argc[c] :
           /\ ret[c].fss.elems[i].Tag = args[c][i].Tag
           /\ ret[c].atts.elems[i].Filesystem = args[c][i].Tag
           /\ ret[c].atts.elems[i].Machine = args[c][i].Attachment.Machine
           /\ ret[c].atts.elems[i].Path = args[c][i].Attachment.Path

\* C14 witness: a batch of two requests on different paths has succeeded.
C14_Witness ==
  \E c \in SeqCallers :
    /\ pc[c] = "done" /\ ret[c].status = "returned" /\ ret[c].err = Nil
    /\ argc[c] = 2 /\ Len(ret[c].fss.elems) = 2
    /\ args[c][1].Attachment.Path # args[c][2].Attachment.Path
    /\ args[c][1].Tag # args[c][2].Tag

\* lstat failed for the current item of c with an error that is not "does
\* not exist", and the call is over
StatFailed(c) ==
  /\ argc[c] > 0
  /\ \/ pc[c] = "panicked" /\ st[c] = "ENOTDIR"
     \/ pc[c] = "done" /\ last[c].valid /\ last[c].st = "ENOTDIR"

\* C15: when the stat of the target fails with an error other than "does
\* not exist", createFilesystem returns an error to its caller, and no
\* directory is created or removed.
C15_StatErrorIsReturned ==
  \A c \in SeqCallers :
    StatFailed(c) =>
      /\ ret[c].status = "returned"
      /\ ret[c].err # Nil
      /\ fs = pre[c]

\* the part of C15 the code keeps: no directory is created or removed
C15_StatErrorTouchesNothing ==
  \A c \in SeqCallers : StatFailed(c) => fs = pre[c]

\* C16: addInterfaces applied to what convertSpacesToBindings made of a
\* spaces list returns no error, whatever the list: every binding made has a
\* name, a space id, and a name no other binding has.
C16_DerivedBindingsAlwaysEncode ==
  /\ maasPc \in {"ready", "called"} =>
       /\ \A k \in 1..Len(bindings) :
            /\ bindings[k].Name # <<>>
            /\ bindings[k].SpaceProviderId # <<>>
       /\ \A j, k \in 1..Len(bindings) :
            j # k => bindings[j].Name # bindings[k].Name
  /\ maasPc = "called" => addErr = NoError

\* C16 witness: the spaces "^^", "a", "^" gave two bindings, and addInterfaces
\* encoded them into both parameters without error.
C16_Witness ==
  /\ maasPc = "called"
  /\ SpacesGiven = << <<"^", "^">>, <<"a">>, <<"^">> >>
  /\ Len(bindings) = 2
  /\ addErr = NoError
  /\ Len(params["interfaces"]) = Len(paramsIn["interfaces"]) + 1
  /\ Len(params["not_networks"]) = Len(paramsIn["not_networks"]) + 1

\* C17: in a login with --new-password the cached credentials are overwritten
\* with the generated password only once the server has accepted it: when
\* SetPassword fails, the command returns an error and the credentials
\* cached in the store hold the server file's password.
C17_PasswordCachedOnlyIfAccepted ==
  (loginPc = "returned" /\ loginCmd.NewPassword /\ setPasswordErr) =>
    /\ loginErr # ""
    /\ store = serverDetails.Password

\* what the code does instead: the login that went through a failed
\* SetPassword never returns with the server file's password in serverInfo
C17_FailedSetPasswordIsIgnored ==
  (loginPc = "returned" /\ loginCmd.NewPassword /\ setPasswordErr) =>
    /\ serverInfo = password /\ password \in RandomPasswords
    /\ serverPassword # password
    /\ loginErr = "" => store = password

====
